---- MODULE Spec2Model ----
(***************************************************************************)
(* A model of the ij dependency-injection container: the immutable         *)
(* Registry (ctor / fn / constant / _add / buildInjector), the stateful    *)
(* Injector (build / _build / _buildProvider) and the promise chains that  *)
(* a build() call leaves in flight.                                        *)
(*                                                                         *)
(* A call of Injector#build runs _build synchronously down the dependency  *)
(* graph; every _build invocation that returns leaves one promise chain,   *)
(* a "node" here.  The continuations of a node run later, one per step:    *)
(*   Construct  the .then((depResults) => ...) handler of Promise.all      *)
(*   Settle     the promise returned by an asynchronous factory settles    *)
(*   Complete   the .then((result) => ...) handler (cache write)           *)
(*   Propagate  Promise.all rejects and the .catch handlers run            *)
(***************************************************************************)
EXTENDS Integers, Sequences, FiniteSets, TLC

\* ------------------------------------------------------------------ bounds

\* build() calls made in one behaviour
MaxCalls == 2
\* promise chains (_build invocations that returned) in one behaviour
MaxNodes == 10
\* frames of _build the JavaScript stack holds before RangeError is thrown
StackLimit == 5
\* calls of ctor, fn, constant, buildInjector and build in one behaviour
MaxOps == 4

\* ------------------------------------------------------------ plain values

\* immutable.Map(): a function whose domain is the set of keys
EmptyMap == [k \in {} |-> 0]

\* immutable.Map#set
MapSet(m, k, v) == [x \in (DOMAIN m) \cup {k} |-> IF x = k THEN v ELSE m[x]]

\* immutable.Map#has
MapHas(m, k) == k \in DOMAIN m

\* the value of a missing key, a missing argument, a function without return
Undefined == "undefined"

\* immutable.Map#get
MapGet(m, k) == IF k \in DOMAIN m THEN m[k] ELSE Undefined

\* immutable.Map#merge(x): the entries of x win
MapMerge(m, x) == [k \in (DOMAIN m) \cup (DOMAIN x) |-> IF k \in DOMAIN x THEN x[k] ELSE m[k]]

\* new immutable.Map().merge(...maps), left to right
RECURSIVE MergeAll(_)
MergeAll(maps) ==
    IF maps = <<>> THEN EmptyMap
    ELSE MapMerge(MergeAll(SubSeq(maps, 1, Len(maps) - 1)), maps[Len(maps)])

Range(s) == {s[i] : i \in 1..Len(s)}

\* --------------------------------------------- the functions a caller passes

\* The functions handed to ctor() and fn().  hasIj/ij is the $ij field, sig the
\* parameter list of the function's source text, does what a call of it does:
\* "returns" a fresh object, "throws", or is "async" (returns a pending
\* promise that the environment settles later).
FnTable ==
    [ mkA    |-> [hasIj |-> TRUE,  ij |-> <<"b", "c">>, sig |-> <<"e", "t">>, does |-> "returns"],
      mkB    |-> [hasIj |-> FALSE, ij |-> <<>>, sig |-> <<"d">>, does |-> "returns"],
      mkC    |-> [hasIj |-> FALSE, ij |-> <<>>, sig |-> <<"d">>, does |-> "returns"],
      mkD    |-> [hasIj |-> FALSE, ij |-> <<>>, sig |-> <<>>, does |-> "returns"],
      mkD2   |-> [hasIj |-> FALSE, ij |-> <<>>, sig |-> <<>>, does |-> "returns"],
      loopA  |-> [hasIj |-> FALSE, ij |-> <<>>, sig |-> <<"b">>, does |-> "returns"],
      loopB  |-> [hasIj |-> FALSE, ij |-> <<>>, sig |-> <<"a">>, does |-> "returns"],
      needM  |-> [hasIj |-> FALSE, ij |-> <<>>, sig |-> <<"m">>, does |-> "returns"],
      pairCD |-> [hasIj |-> FALSE, ij |-> <<>>, sig |-> <<"c", "d">>, does |-> "returns"],
      slowD  |-> [hasIj |-> FALSE, ij |-> <<>>, sig |-> <<>>, does |-> "async"],
      badC   |-> [hasIj |-> FALSE, ij |-> <<>>, sig |-> <<>>, does |-> "throws"] ]

Functions == DOMAIN FnTable

\* typeof x == 'function'
IsFunction(x) == x \in Functions

\* null and undefined, as passed to constant()
Null == "null"

\* The promises a caller holds and passes as values: each is fulfilled, with
\* the value given here
Thenables == [ promiseOf8080 |-> "8080" ]

\* what a promise made by Promise.resolve(v) is fulfilled with: a value that
\* is a promise is adopted, any other value is the fulfilment itself
PromiseResolve(v) == IF v \in DOMAIN Thenables THEN Thenables[v] ELSE v

\* getDependencyNames(fn): the $ij array when there is one, else the names
\* parsed from the parameter list
getDependencyNames(fn) ==
    IF FnTable[fn].hasIj THEN FnTable[fn].ij ELSE FnTable[fn].sig

\* ----------------------------------------------------------------- errors

NoError == [kind |-> "none", about |-> "", parents |-> <<>>]

\* new Error(msg) / new ProviderNotFound(msg) / an engine TypeError or
\* RangeError / the error of a factory; about names the provider in the
\* message, parents is the chain (err.parents)
MkError(kind, about) == [kind |-> kind, about |-> about, parents |-> <<>>]

\* ProviderNotFound#parents has a getter and no setter, and class bodies are
\* strict code: the assignment err.parents = [...] throws a TypeError
AssignParents(err, parentsValue) == MkError("TypeError", err.about)

\* Array#push on err.parents
PushParent(err, name) == [err EXCEPT !.parents = Append(@, name)]

\* ---------------------------------------------------------------- Provider

\* new Provider(name, type, factory, deps, opts)
Provider(name, type, factory, deps, opts) ==
    [name |-> name, type |-> type, factory |-> factory,
     dependencies |-> deps, isCacheable |-> opts.isCacheable]

\* the options object of a registration call; hasUsing says whether
\* options.using is set
NoOptions == [hasUsing |-> FALSE, using |-> EmptyMap, isCacheable |-> FALSE, override |-> FALSE]

Cacheable == [NoOptions EXCEPT !.isCacheable = TRUE]

Override == [NoOptions EXCEPT !.override = TRUE]

Using(m) == [NoOptions EXCEPT !.hasUsing = TRUE, !.using = m]

\* MappedDeps, were options.using left unread
MappedDepsRaw(deps, options) == deps

\* deps.map(d => options.using[d] || d)
MappedDeps(deps, options) ==
    IF options.hasUsing
    THEN [i \in 1..Len(deps) |->
             IF MapHas(options.using, deps[i]) THEN options.using[deps[i]] ELSE deps[i]]
    ELSE deps

\* Add, were a name that is present left with its first provider
AddKeepsFirst(providers, name, type, factory, deps, options) ==
    IF MapHas(providers, name) THEN providers
    ELSE MapSet(providers, name,
                Provider(name, type, factory, MappedDeps(deps, options),
                         [isCacheable |-> options.isCacheable]))

\* Registry#_add: the provider map of the Registry it returns
Add(providers, name, type, factory, deps, options) ==
    MapSet(providers, name,
           Provider(name, type, factory, MappedDeps(deps, options),
                    [isCacheable |-> options.isCacheable]))

\* assert() of Registry#ctor and Registry#fn
CanProvideFunction(x) == IsFunction(x)

\* CanProvideConstant, were the test constant !== undefined
CanProvideDefined(v) == v # Undefined

\* assert() of Registry#constant
CanProvideConstant(v) == v # Null

\* Registry#ctor, past its assert
CtorAdd(providers, name, Ctor, options) ==
    Add(providers, name, "CTOR", Ctor, getDependencyNames(Ctor), options)

\* Registry#fn, past its assert
FnAdd(providers, name, fn, options) ==
    Add(providers, name, "FN", fn, getDependencyNames(fn), options)

\* Registry#constant, past its assert: _add is called without options
ConstantAdd(providers, name, constant) ==
    Add(providers, name, "CONSTANT", constant, <<>>, NoOptions)

\* ------------------------------------------------------------------ state

VARIABLES
    registries,   \* the Registry values made so far: [providers, from, op]
    injectors,    \* the Injectors made so far: [providers, cache, from]
    calls,        \* the build() calls made so far
    nodes,        \* the promise chains the _build invocations left
    lastOp        \* outcome of the latest registration call

vars == <<registries, injectors, calls, nodes, lastOp>>

\* new Registry(providers); from and op record the call that made it
Registry(providers, from, op) == [providers |-> providers, from |-> from, op |-> op]

\* the slot of a name the map does not hold
NoProvider == [name |-> "", type |-> "NONE", factory |-> "", dependencies |-> <<>>, isCacheable |-> FALSE]

\* a registration call as observed: the receiver (a Registry id), the
\* arguments, and what the receiver held under the name when it was made
Op(op, receiver, name, input, options) ==
    [op |-> op, receiver |-> receiver, name |-> name, input |-> input, options |-> options,
     had |-> IF receiver = 0 THEN FALSE ELSE MapHas(registries[receiver].providers, name),
     old |-> IF receiver # 0 /\ MapHas(registries[receiver].providers, name)
             THEN registries[receiver].providers[name] ELSE NoProvider,
     receiverHeld |-> IF receiver = 0 THEN EmptyMap ELSE registries[receiver].providers]

NoOp == Op("none", 0, "", "", NoOptions)

\* what the caller of a registration got: a Registry (its id) or an Error
Returned(op, id) == [op |-> op.op, input |-> op.input, threw |-> FALSE, registry |-> id]

\* assert() threw new Error(msg)
Threw(op) == [op |-> op.op, input |-> op.input, threw |-> TRUE, registry |-> 0]

\* new Injector(providers): the map is kept, the cache starts empty
\* from and madeAfter record the Registry it was made from and how many
\* Registry values existed then
Injector(providers, from) ==
    [providers |-> providers, cache |-> EmptyMap, from |-> from,
     madeAfter |-> Len(registries)]

\* ProvidersOf, were the Injector to read the newest Registry of the run
ProvidersOfNewest(inj) == registries[Len(registries)].providers

\* this._providers of an Injector
ProvidersOf(inj) == inj.providers

\* --------------------------------------------------- the Registry calls

\* NewRegistry, were the map of the receiver written in place
NewRegistryInPlace(regs, r, providers, op) ==
    Append([regs EXCEPT ![r].providers = providers], Registry(providers, r, op))

\* return new Registry(this._providers.set(name, provider)): the Registry
\* values afterwards; the receiver r is left as it was
NewRegistry(regs, r, providers, op) == Append(regs, Registry(providers, r, op))

\* the calls made so far that returned a Registry, an Injector or a promise
Ops == (Len(registries) - 1) + Len(injectors) + Len(calls)

\* Registry#ctor(name, Ctor, opt_options)
Ctor(r, name, x, options) ==
    /\ Ops < MaxOps
    /\ LET op == Op("ctor", r, name, x, options) IN
       IF ~CanProvideFunction(x)
       THEN /\ lastOp' = Threw(op)
            /\ UNCHANGED registries
       ELSE /\ registries' = NewRegistry(registries, r,
                                 CtorAdd(registries[r].providers, name, x, options), op)
            /\ lastOp' = Returned(op, Len(registries) + 1)
    /\ UNCHANGED <<injectors, calls, nodes>>

\* Registry#fn(name, fn, opt_options)
Fn(r, name, x, options) ==
    /\ Ops < MaxOps
    /\ LET op == Op("fn", r, name, x, options) IN
       IF ~CanProvideFunction(x)
       THEN /\ lastOp' = Threw(op)
            /\ UNCHANGED registries
       ELSE /\ registries' = NewRegistry(registries, r,
                                 FnAdd(registries[r].providers, name, x, options), op)
            /\ lastOp' = Returned(op, Len(registries) + 1)
    /\ UNCHANGED <<injectors, calls, nodes>>

\* Registry#constant(name, constant)
Constant(r, name, v) ==
    /\ Ops < MaxOps
    /\ LET op == Op("constant", r, name, v, NoOptions) IN
       IF ~CanProvideConstant(v)
       THEN /\ lastOp' = Threw(op)
            /\ UNCHANGED registries
       ELSE /\ registries' = NewRegistry(registries, r,
                                 ConstantAdd(registries[r].providers, name, v), op)
            /\ lastOp' = Returned(op, Len(registries) + 1)
    /\ UNCHANGED <<injectors, calls, nodes>>

\* BuildInjector, were the TODO done and a Registry with an unregistered
\* dependency refused
BuildInjectorValidated(r) ==
    /\ Ops < MaxOps
    /\ \A name \in DOMAIN registries[r].providers :
          \A k \in 1..Len(registries[r].providers[name].dependencies) :
             MapHas(registries[r].providers, registries[r].providers[name].dependencies[k])
    /\ injectors' = Append(injectors, Injector(registries[r].providers, r))
    /\ UNCHANGED <<registries, calls, nodes, lastOp>>

\* Registry#buildInjector()
BuildInjector(r) ==
    /\ Ops < MaxOps
    /\ injectors' = Append(injectors, Injector(registries[r].providers, r))
    /\ UNCHANGED <<registries, calls, nodes, lastOp>>

\* ------------------------------------------------- Injector#_build, the walk

\* the promise chain of one _build invocation; early records that it was
\* fulfilled before a chain that stands ahead of it in the dependency list
Node(i, c, name, children) ==
    [inj |-> i, call |-> c, name |-> name, children |-> children,
     state |-> "waiting", invoked |-> FALSE, factory |-> "", args |-> <<>>,
     value |-> Undefined, results |-> EmptyMap, err |-> NoError, early |-> FALSE]

Walked(ns, kind, id, err) == [nodes |-> ns, kind |-> kind, id |-> id, err |-> err, children |-> <<>>]

\* this._cache.has(provider.name) at the head of _build
CacheHit(inj, name) == MapHas(inj.cache, name)

RECURSIVE BuildWalk(_, _, _, _, _, _), DepsWalk(_, _, _, _, _, _, _, _)

\* Injector#_build(provider), the synchronous part, on the Injector inj whose
\* id is i.  ns are the chains that exist so far.  Returns the chains afterwards and what the invocation
\* returned: a "promise" (chain id), the cached "value" itself, or a "throw".
BuildWalk(inj, i, c, name, ns, depth) ==
    IF depth > StackLimit
    THEN Walked(ns, "throw", 0, MkError("RangeError", name))
    ELSE IF CacheHit(inj, name)
    THEN Walked(ns, "value", 0, NoError)
    ELSE LET r == DepsWalk(inj, i, c, name, 1, ns, <<>>, depth) IN
         IF r.kind = "throw" THEN r
         ELSE Walked(Append(r.nodes, Node(i, c, name, r.children)),
                     "promise", Len(r.nodes) + 1, NoError)

\* provider.dependencies.map((depName) => ...), from index k on
DepsWalk(inj, i, c, name, k, ns, children, depth) ==
    LET deps == ProvidersOf(inj)[name].dependencies IN
    IF k > Len(deps)
    THEN [nodes |-> ns, kind |-> "ok", id |-> 0, err |-> NoError, children |-> children]
    ELSE IF ~MapHas(ProvidersOf(inj), deps[k])
    THEN Walked(ns, "throw", 0,
                AssignParents(MkError("ProviderNotFound", deps[k]), <<name>>))
    ELSE LET r == BuildWalk(inj, i, c, deps[k], ns, depth + 1) IN
         IF r.kind = "throw" THEN r
         ELSE IF r.kind = "value"
         \* this._build(depProvider).catch: the cached value is no promise
         THEN Walked(r.nodes, "throw", 0, MkError("TypeError", deps[k]))
         ELSE DepsWalk(inj, i, c, name, k + 1, r.nodes, Append(children, r.id), depth)

\* ------------------------------------------------------ Injector#build

\* what the caller of build() has got so far
BuildCatch(err, name) ==
    IF err.kind = "ProviderNotFound"
    THEN [MkError("Error", err.about) EXCEPT !.parents = Append(err.parents, name)]
    ELSE err

Outcome(c) ==
    IF calls[c].sync # "none" THEN calls[c].sync
    ELSE CASE nodes[calls[c].root].state = "fulfilled" -> "resolved"
           [] nodes[calls[c].root].state = "rejected" -> "rejected"
           [] OTHER -> "pending"

\* results.get(provider.name) of a resolved call
ResolvedValue(c) == MapGet(nodes[calls[c].root].results, calls[c].name)

\* the error a call threw or rejected with
CallError(c) ==
    IF calls[c].sync # "none" THEN calls[c].err
    ELSE BuildCatch(nodes[calls[c].root].err, calls[c].name)

\* a build() call as observed; via tells whether the caller made it on an
\* Injector it holds or through Registry#build
Call(inj, i, via, name, root, sync, err) ==
    [inj |-> i, name |-> name, root |-> root, sync |-> sync, err |-> err,
     via |-> via,
     prior |-> {c \in 1..Len(calls) : Outcome(c) = "resolved"},
     cacheAtStart |-> inj.cache,
     nodesAtStart |-> Len(nodes),
     registriesAtStart |-> Len(registries)]

\* the body of Injector#build(name), run on the Injector inj whose id is i
BuildOn(inj, i, via, name) ==
    LET c == Len(calls) + 1 IN
    IF ~MapHas(ProvidersOf(inj), name)
    THEN /\ calls' = Append(calls, Call(inj, i, via, name, 0, "rejected", MkError("Error", name)))
         /\ UNCHANGED nodes
    ELSE LET r == BuildWalk(inj, i, c, name, nodes, 1) IN
         /\ Len(r.nodes) <= MaxNodes
         /\ nodes' = r.nodes
         /\ calls' = Append(calls,
                CASE r.kind = "promise" -> Call(inj, i, via, name, r.id, "none", NoError)
                  \* this._build(provider, name).then: no promise
                  [] r.kind = "value" ->
                       Call(inj, i, via, name, 0, "threw", MkError("TypeError", name))
                  [] OTHER -> Call(inj, i, via, name, 0, "threw", r.err))

\* the caller holds Injector i: buildInjector() returned it, while the one
\* Registry#build makes is never handed out
Held(i) == \A c \in 1..Len(calls) : calls[c].inj = i => calls[c].via = "injector"

\* Injector#build(name)
Build(i, name) ==
    /\ Len(calls) < MaxCalls
    /\ Ops < MaxOps
    /\ Held(i)
    /\ BuildOn(injectors[i], i, "injector", name)
    /\ UNCHANGED <<registries, injectors, lastOp>>

\* RegistryInjector, were Registry#build to keep the Injector it made first
RegistryInjectorKept(r) ==
    IF \E i \in 1..Len(injectors) : injectors[i].from = r
    THEN CHOOSE i \in 1..Len(injectors) :
            /\ injectors[i].from = r
            /\ \A j \in 1..(i - 1) : injectors[j].from # r
    ELSE Len(injectors) + 1

\* the Injector that this.buildInjector() hands to Registry#build: a new one
RegistryInjector(r) == Len(injectors) + 1

\* Registry#build(name): this.buildInjector().build(name)
RegistryBuild(r, name) ==
    /\ Len(calls) < MaxCalls
    /\ Ops + 1 < MaxOps
    /\ LET i == RegistryInjector(r)
           injs == IF i > Len(injectors)
                   THEN Append(injectors, Injector(registries[r].providers, r))
                   ELSE injectors
       IN /\ injectors' = injs
          /\ BuildOn(injs[i], i, "registry", name)
    /\ UNCHANGED <<registries, lastOp>>

\* ------------------------------------------------ the continuations

ProviderOfNode(n) == ProvidersOf(injectors[nodes[n].inj])[nodes[n].name]

\* ChildrenAll, were the chains joined with Promise.race
ChildrenRace(n, state) ==
    \/ Len(nodes[n].children) = 0
    \/ \E k \in 1..Len(nodes[n].children) : nodes[nodes[n].children[k]].state = state

\* Promise.all(childPromises) is fulfilled
ChildrenAll(n, state) == \A k \in 1..Len(nodes[n].children) : nodes[nodes[n].children[k]].state = state

\* new immutable.Map().merge(...depResults)
DepResults(n) == MergeAll([k \in 1..Len(nodes[n].children) |-> nodes[nodes[n].children[k]].results])

\* Args, were the values taken in the opposite order
ArgsReversed(provider, results) ==
    [k \in 1..Len(provider.dependencies) |->
        MapGet(results, provider.dependencies[Len(provider.dependencies) + 1 - k])]

\* provider.dependencies.map(d => results.get(d))
Args(provider, results) == [k \in 1..Len(provider.dependencies) |-> MapGet(results, provider.dependencies[k])]

\* the object that the _buildProvider call of chain n made: every call of a
\* constructor, or of a function that "returns", makes a new one
Instance(n) == "#" \o ToString(n)

\* Injector#_buildProvider, called for chain n: what the chain becomes
BuildProvider(n, provider, results) ==
    LET called == [nodes[n] EXCEPT !.invoked = TRUE, !.results = results,
                                   !.factory = provider.factory,
                                   !.args = Args(provider, results)]
    IN
    CASE provider.type = "CONSTANT" ->
           [called EXCEPT !.state = "built", !.value = PromiseResolve(provider.factory)]
      [] FnTable[provider.factory].does = "returns" ->
           [called EXCEPT !.state = "built", !.value = Instance(n)]
      [] FnTable[provider.factory].does = "async" ->
           [called EXCEPT !.state = "pending"]
      [] OTHER ->
           [called EXCEPT !.state = "rejected",
                          !.err = MkError("FactoryError", provider.name)]

\* Construct, were each dependency resolved only after the ones declared
\* ahead of it
ConstructInTurn(n) ==
    /\ nodes[n].state = "waiting"
    /\ ChildrenAll(n, "fulfilled")
    /\ \A p \in 1..Len(nodes) : \A k \in 1..Len(nodes[p].children) :
          nodes[p].children[k] = n =>
             \A j \in 1..(k - 1) : nodes[nodes[p].children[j]].state = "fulfilled"
    /\ nodes' = [nodes EXCEPT ![n] = BuildProvider(n, ProviderOfNode(n), DepResults(n))]
    /\ UNCHANGED <<registries, injectors, calls, lastOp>>

\* Promise.all(childPromises).then((depResults) => ...)
Construct(n) ==
    /\ nodes[n].state = "waiting"
    /\ ChildrenAll(n, "fulfilled")
    /\ nodes' = [nodes EXCEPT ![n] = BuildProvider(n, ProviderOfNode(n), DepResults(n))]
    /\ UNCHANGED <<registries, injectors, calls, lastOp>>

\* the promise an asynchronous factory returned settles
Settle(n, ok) ==
    /\ nodes[n].state = "pending"
    /\ nodes' = [nodes EXCEPT ![n] =
                   IF ok THEN [nodes[n] EXCEPT !.state = "built",
                                               !.value = Instance(n)]
                   ELSE [nodes[n] EXCEPT !.state = "rejected",
                                         !.err = MkError("FactoryError", nodes[n].name)]]
    /\ UNCHANGED <<registries, injectors, calls, lastOp>>

\* CacheAfter, were provider.isCacheable left untested
CacheAlways(cache, provider, result) == MapSet(cache, provider.name, result)

\* this._cache = this._cache.set(provider.name, result), when cacheable
CacheAfter(cache, provider, result) ==
    IF provider.isCacheable THEN MapSet(cache, provider.name, result) ELSE cache

\* chain n is about to be fulfilled while the chain of a dependency declared
\* ahead of it, for the same provider, is not
FulfilledEarly(n) ==
    \E p \in 1..Len(nodes) : \E k \in 1..Len(nodes[p].children) :
        /\ nodes[p].children[k] = n
        /\ \E j \in 1..(k - 1) : nodes[nodes[p].children[j]].state # "fulfilled"

\* .then((result) => { ...; return results.set(provider.name, result) })
Complete(n) ==
    /\ nodes[n].state = "built"
    /\ LET provider == ProviderOfNode(n) IN
       /\ injectors' = [injectors EXCEPT ![nodes[n].inj].cache =
                            CacheAfter(@, provider, nodes[n].value)]
       /\ nodes' = [nodes EXCEPT ![n].state = "fulfilled",
                                 ![n].results = MapSet(@, provider.name, nodes[n].value),
                                 ![n].early = FulfilledEarly(n)]
    /\ UNCHANGED <<registries, calls, lastOp>>

\* .catch((err) => { if (err instanceof ProviderNotFound) ...; throw err })
DepCatch(err, name) ==
    IF err.kind = "ProviderNotFound" THEN PushParent(err, name) ELSE err

\* Promise.all rejects with the rejection of a dependency
Propagate(n, k) ==
    /\ nodes[n].state = "waiting"
    /\ k \in 1..Len(nodes[n].children)
    /\ nodes[nodes[n].children[k]].state = "rejected"
    /\ nodes' = [nodes EXCEPT ![n].state = "rejected",
                              ![n].err = DepCatch(nodes[nodes[n].children[k]].err, nodes[n].name)]
    /\ UNCHANGED <<registries, injectors, calls, lastOp>>

\* ------------------------------------------------------- specification

\* Registries that registration calls on the empty Registry return; the
\* name "m" is registered in none of them.
\* a needs b and c, which both need d
Diamond(aOptions, dOptions) ==
    FnAdd(CtorAdd(CtorAdd(FnAdd(EmptyMap, "d", "mkD", dOptions),
                          "b", "mkB", NoOptions),
                  "c", "mkC", NoOptions),
          "a", "mkA", aOptions)

\* a needs b, b needs a
Cyclic == FnAdd(FnAdd(EmptyMap, "a", "loopA", NoOptions), "b", "loopB", Cacheable)

\* a needs b, b needs "m"; c needs d (registered) and then "m"
Missing ==
    FnAdd(FnAdd(FnAdd(FnAdd(EmptyMap, "a", "loopA", NoOptions),
                      "b", "needM", NoOptions),
                "d", "mkD", Cacheable),
          "c", "pairCD", Using([c |-> "d", d |-> "m"]))

\* a needs c, whose factory throws, and d, whose factory is asynchronous;
\* b needs a
Failing ==
    FnAdd(FnAdd(FnAdd(FnAdd(EmptyMap, "c", "badC", NoOptions),
                      "d", "slowD", Cacheable),
                "a", "pairCD", Cacheable),
          "b", "loopB", NoOptions)

\* d is a constant, c a constant that is a promise, b needs d
Constants ==
    CtorAdd(ConstantAdd(ConstantAdd(EmptyMap, "d", "8080"), "c", "promiseOf8080"),
            "b", "mkB", NoOptions)

Scenarios ==
    { Diamond(NoOptions, NoOptions), Diamond(Cacheable, Cacheable),
      Diamond(NoOptions, Cacheable), Cyclic, Missing, Failing, Constants }

\* the names build() is called with
BuildNames == {"a", "b", "c", "d", "m"}

\* One Registry and the Injector its buildInjector() returned
Init ==
    /\ \E s \in Scenarios :
         /\ registries = <<Registry(s, 0, NoOp)>>
         /\ injectors = <<Injector(s, 1)>>
    /\ calls = <<>>
    /\ nodes = <<>>
    /\ lastOp = Returned(NoOp, 1)

Next ==
    \/ \E i \in 1..Len(injectors), name \in BuildNames : Build(i, name)
    \/ \E n \in 1..Len(nodes) : Construct(n)
    \/ \E n \in 1..Len(nodes), ok \in BOOLEAN : Settle(n, ok)
    \/ \E n \in 1..Len(nodes) : Complete(n)
    \/ \E n \in 1..Len(nodes) : \E k \in 1..Len(nodes[n].children) : Propagate(n, k)

Spec == Init /\ [][Next]_vars

\* The registration calls of SpecRegistry: ctor and fn with these names,
\* arguments and options, constant with these names and values.
RegNames == {"c", "d"}

CtorNames == {"c"}

FnNames == {"d"}

ConstantNames == {"d"}

\* "nofn" is an object that is no function
CtorInputs == {"mkC", "nofn"}

FnInputs == {"mkD", "slowD", "nofn"}

CtorOptions == {NoOptions}

FnOptions == {NoOptions, Override}

RegConstants == {"8080", Null}

\* The empty Registry, new Registry()
InitRegistry ==
    /\ registries = <<Registry(EmptyMap, 0, NoOp)>>
    /\ injectors = <<>>
    /\ calls = <<>>
    /\ nodes = <<>>
    /\ lastOp = Returned(NoOp, 1)

NextRegistry ==
    \/ \E r \in 1..Len(registries), name \in CtorNames, x \in CtorInputs, o \in CtorOptions :
         Ctor(r, name, x, o)
    \/ \E r \in 1..Len(registries), name \in FnNames, x \in FnInputs, o \in FnOptions :
         Fn(r, name, x, o)
    \/ \E r \in 1..Len(registries), name \in ConstantNames, v \in RegConstants :
         Constant(r, name, v)
    \/ \E r \in 1..Len(registries) : BuildInjector(r)
    \/ \E i \in 1..Len(injectors), name \in RegNames : Build(i, name)
    \/ \E n \in 1..Len(nodes) : Construct(n)
    \/ \E n \in 1..Len(nodes), ok \in BOOLEAN : Settle(n, ok)
    \/ \E n \in 1..Len(nodes) : Complete(n)
    \/ \E n \in 1..Len(nodes) : \E k \in 1..Len(nodes[n].children) : Propagate(n, k)

SpecRegistry == InitRegistry /\ [][NextRegistry]_vars

\* The registration calls of SpecUsing, made on a Registry in which d is an
\* asynchronous function and c a constructor that needs d: fn("a", mkA) asks
\* for b and c, ctor("b", mkB) asks for d, each with or without using.
UsingBase == CtorAdd(FnAdd(EmptyMap, "d", "slowD", NoOptions), "c", "mkC", NoOptions)

UsingFnOptions == {NoOptions, Using([b |-> "d"])}

UsingCtorOptions == {NoOptions, Using([d |-> "c"])}

UsingNames == {"a", "b"}

InitUsing ==
    /\ registries = <<Registry(UsingBase, 0, NoOp)>>
    /\ injectors = <<>>
    /\ calls = <<>>
    /\ nodes = <<>>
    /\ lastOp = Returned(NoOp, 1)

NextUsing ==
    \/ \E r \in 1..Len(registries), o \in UsingFnOptions : Fn(r, "a", "mkA", o)
    \/ \E r \in 1..Len(registries), o \in UsingCtorOptions : Ctor(r, "b", "mkB", o)
    \/ \E r \in 1..Len(registries) : BuildInjector(r)
    \/ \E i \in 1..Len(injectors), name \in UsingNames : Build(i, name)
    \/ \E n \in 1..Len(nodes) : Construct(n)
    \/ \E n \in 1..Len(nodes), ok \in BOOLEAN : Settle(n, ok)
    \/ \E n \in 1..Len(nodes) : Complete(n)
    \/ \E n \in 1..Len(nodes) : \E k \in 1..Len(nodes[n].children) : Propagate(n, k)

SpecUsing == InitUsing /\ [][NextUsing]_vars

\* a and b need each other; d needs nothing
CyclicAside == FnAdd(Cyclic, "d", "mkD", Cacheable)

\* the names build() is called with in SpecBuild
ShortcutNames == {"a", "d"}

\* The Registry values of SpecBuild, on which buildInjector() and build() are
\* called: one with a failing factory, one with an unregistered dependency,
\* one with a cycle.
BuildScenarios == { Failing, Missing, CyclicAside }

InitBuild ==
    /\ \E s \in BuildScenarios : registries = <<Registry(s, 0, NoOp)>>
    /\ injectors = <<>>
    /\ calls = <<>>
    /\ nodes = <<>>
    /\ lastOp = Returned(NoOp, 1)

NextBuild ==
    \/ \E r \in 1..Len(registries) : BuildInjector(r)
    \/ \E r \in 1..Len(registries), name \in ShortcutNames : RegistryBuild(r, name)
    \/ \E i \in 1..Len(injectors), name \in ShortcutNames : Build(i, name)
    \/ \E n \in 1..Len(nodes) : Construct(n)
    \/ \E n \in 1..Len(nodes), ok \in BOOLEAN : Settle(n, ok)
    \/ \E n \in 1..Len(nodes) : Complete(n)
    \/ \E n \in 1..Len(nodes) : \E k \in 1..Len(nodes[n].children) : Propagate(n, k)

SpecBuild == InitBuild /\ [][NextBuild]_vars

\* --------------------------------------------------------- the claims

\* the chains of call c that built the provider called name
BuiltBy(c, name) ==
    {n \in 1..Len(nodes) : nodes[n].call = c /\ nodes[n].name = name /\ nodes[n].invoked}

\* the provider a call asks for, as its Injector holds it
Requested(c) == injectors[calls[c].inj].providers[calls[c].name]

IsRegistered(c) == MapHas(injectors[calls[c].inj].providers, calls[c].name)

\* c2 was started on the Injector of c1, for the same name, after c1 resolved
Sequential(c1, c2) ==
    /\ c1 \in calls[c2].prior
    /\ calls[c1].inj = calls[c2].inj
    /\ calls[c1].name = calls[c2].name

Pairs == {p \in (1..Len(calls)) \X (1..Len(calls)) : Sequential(p[1], p[2])}

\* C1: two sequential build(name) calls for a cacheable provider both
\* resolve, with the identical instance, and the provider is constructed
\* exactly once across both calls.
C1_SequentialCacheableBuilds ==
    \A p \in Pairs :
        Requested(p[1]).isCacheable =>
            /\ Outcome(p[2]) \in {"pending", "resolved"}
            /\ Outcome(p[2]) = "resolved" => ResolvedValue(p[2]) = ResolvedValue(p[1])
            /\ Cardinality(BuiltBy(p[1], calls[p[1]].name) \cup BuiltBy(p[2], calls[p[1]].name)) = 1

\* C2: within one build() call no provider is constructed more than once,
\* cacheable or not, and all dependents are handed the same instance of it.
C2_DiamondBuiltOnce ==
    \A c \in 1..Len(calls) : \A name \in BuildNames :
        /\ Cardinality(BuiltBy(c, name)) <= 1
        /\ \A n1, n2 \in 1..Len(nodes) :
              (nodes[n1].call = c /\ nodes[n2].call = c /\ nodes[n1].invoked /\ nodes[n2].invoked)
              => \A k1 \in 1..Len(nodes[n1].args), k2 \in 1..Len(nodes[n2].args) :
                    (ProviderOfNode(n1).dependencies[k1] = name
                     /\ ProviderOfNode(n2).dependencies[k2] = name)
                    => nodes[n1].args[k1] = nodes[n2].args[k2]

\* the names the providers map makes name depend on, directly
DepsOf(providers, name) ==
    IF MapHas(providers, name) THEN Range(providers[name].dependencies) ELSE {}

RECURSIVE ReachFrom(_, _, _)
\* the names reachable from the set seen, in at most fuel further steps
ReachFrom(providers, seen, fuel) ==
    LET more == seen \cup UNION {DepsOf(providers, x) : x \in seen} IN
    IF fuel = 0 \/ more = seen THEN seen ELSE ReachFrom(providers, more, fuel - 1)

Reachable(providers, name) == ReachFrom(providers, {name}, Cardinality(DOMAIN providers) + 1)

\* name lies on a dependency cycle
OnCycle(providers, name) ==
    name \in ReachFrom(providers, DepsOf(providers, name), Cardinality(DOMAIN providers) + 1)

\* C3: build() of a name whose graph holds a cycle rejects with CycleDetected;
\* it neither throws (overflows) nor resolves, and constructs nothing on the
\* cycle.
C3_CycleRejected ==
    \A c \in 1..Len(calls) :
        LET providers == injectors[calls[c].inj].providers
            cyclic == {x \in Reachable(providers, calls[c].name) : OnCycle(providers, x)}
        IN (IsRegistered(c) /\ cyclic # {}) =>
             /\ Outcome(c) \in {"pending", "rejected"}
             /\ Outcome(c) = "rejected" => CallError(c).kind = "CycleDetected"
             /\ \A x \in cyclic : BuiltBy(c, x) = {}

RECURSIVE MissingChains(_, _, _)
\* the chains [m, pk, ..., p1, name] of the dependency paths that lead from
\* name to an unregistered m, by paths that avoid the names in above
MissingChains(providers, name, above) ==
    IF ~MapHas(providers, name) THEN {<<name>>}
    ELSE UNION { {Append(ch, name) : ch \in MissingChains(providers, d, above \cup {name})} :
                 d \in DepsOf(providers, name) \ (above \cup {name}) }

\* C4: build() of a registered name with a path to an unregistered dependency
\* rejects with ProviderNotFound, whose chain runs from the missing name up
\* to the requested one.
C4_MissingDependencyChain ==
    \A c \in 1..Len(calls) :
        LET chains == MissingChains(injectors[calls[c].inj].providers, calls[c].name, {}) IN
        (IsRegistered(c) /\ chains # {} /\ ~MapHas(calls[c].cacheAtStart, calls[c].name)) =>
             /\ Outcome(c) \in {"pending", "rejected"}
             /\ Outcome(c) = "rejected" =>
                   /\ CallError(c).kind = "ProviderNotFound"
                   /\ CallError(c).parents \in chains

\* C5: build() of an unregistered name rejects with ProviderNotFound whose
\* chain is [name], constructs nothing and leaves the cache as it was.
C5_UnregisteredRootChain ==
    \A c \in 1..Len(calls) :
        ~IsRegistered(c) =>
             /\ Outcome(c) = "rejected"
             /\ CallError(c).kind = "ProviderNotFound"
             /\ CallError(c).parents = <<calls[c].name>>
             /\ \A n \in 1..Len(nodes) : nodes[n].call # c

\* C10: of two sequential build(name) calls for a ctor or fn provider that
\* is not cacheable, each constructs the provider anew, and the name never
\* enters the cache.
C10_NonCacheableRebuilt ==
    \A p \in Pairs :
        (~Requested(p[1]).isCacheable /\ Requested(p[1]).type \in {"CTOR", "FN"}) =>
            /\ Outcome(p[2]) # "threw"
            /\ Outcome(p[2]) = "resolved" =>
                  /\ BuiltBy(p[2], calls[p[2]].name) # {}
                  /\ ResolvedValue(p[2]) # ResolvedValue(p[1])
            /\ ~MapHas(injectors[calls[p[1]].inj].cache, calls[p[1]].name)

\* the Registry values made by a registration call
Made == 2..Len(registries)

\* C6: ctor, fn or constant with a name the receiver holds, without
\* override, throws RegistrationConflict and returns no Registry.
C6_ReRegistrationConflict ==
    \A k \in Made : ~(registries[k].op.had /\ ~registries[k].op.options.override)

\* the provider a registration call describes
Described(op, provider) ==
    /\ provider.name = op.name
    /\ provider.factory = op.input
    /\ provider.type = (CASE op.op = "ctor" -> "CTOR" [] op.op = "fn" -> "FN" [] OTHER -> "CONSTANT")

\* the chains of Injectors made from Registry k that built name
BuiltFrom(k, name) ==
    {n \in 1..Len(nodes) :
        injectors[nodes[n].inj].from = k /\ nodes[n].name = name /\ nodes[n].invoked}

Overrides == {k \in Made : registries[k].op.had /\ registries[k].op.options.override}

\* C7: registering a present name with override returns a new Registry that
\* maps the name to the new provider, and its Injectors build that one; the
\* receiver still maps the name to the old provider, and its Injectors
\* build the old one.
C7_OverrideReplaces ==
    \A k \in Overrides :
        LET op == registries[k].op IN
        /\ MapHas(registries[k].providers, op.name)
        /\ Described(op, registries[k].providers[op.name])
        /\ registries[op.receiver].providers[op.name] = op.old
        /\ \A n \in BuiltFrom(k, op.name) : nodes[n].factory = op.input
        /\ \A n \in BuiltFrom(op.receiver, op.name) : nodes[n].factory = op.old.factory

\* an override replaced the factory, and an Injector of the new Registry has
\* built the name
C7_Witness ==
    \E k \in Overrides :
        /\ registries[k].op.old.factory # registries[k].op.input
        /\ BuiltFrom(k, registries[k].op.name) # {}

RECURSIVE RegisteredOn(_)
\* the names registered by the calls that lead from new Registry() to k
RegisteredOn(k) ==
    IF k <= 1 THEN {} ELSE RegisteredOn(registries[k].op.receiver) \cup {registries[k].op.name}

\* C8: a registration returns a new Registry and leaves the receiver as it
\* was; a Registry holds the names registered on its own line of calls and
\* no others, so a name registered on another fork is not found by build().
C8_ForksIndependent ==
    /\ \A k \in Made :
          /\ registries[k].op.receiver < k
          /\ registries[registries[k].op.receiver].providers = registries[k].op.receiverHeld
    /\ \A k \in 1..Len(registries) : DOMAIN registries[k].providers = RegisteredOn(k)
    /\ \A c \in 1..Len(calls) :
          calls[c].name \notin RegisteredOn(injectors[calls[c].inj].from) =>
             /\ Outcome(c) = "rejected"
             /\ CallError(c) = MkError("Error", calls[c].name)
             /\ \A n \in 1..Len(nodes) : nodes[n].call # c

\* two forks of one Registry, and build() on an Injector of the one asked
\* for the name registered on the other
C8_Witness ==
    \E a, b \in Made : \E c \in 1..Len(calls) :
        /\ a # b
        /\ registries[a].op.receiver = registries[b].op.receiver
        /\ registries[a].op.name # registries[b].op.name
        /\ injectors[calls[c].inj].from = b
        /\ calls[c].name = registries[a].op.name
        /\ calls[c].name \notin DOMAIN registries[registries[a].op.receiver].providers
        /\ Outcome(c) = "rejected"

\* C9: an Injector resolves against the provider map its Registry had when
\* buildInjector() made it, whatever is registered afterwards, and no
\* build() changes that map.
C9_InjectorSnapshot ==
    /\ \A i \in 1..Len(injectors) :
          injectors[i].providers = registries[injectors[i].from].providers
    /\ \A n \in 1..Len(nodes) :
          LET held == registries[injectors[nodes[n].inj].from].providers IN
          /\ MapHas(held, nodes[n].name)
          /\ nodes[n].invoked => nodes[n].factory = held[nodes[n].name].factory
          /\ Len(nodes[n].children) = Len(held[nodes[n].name].dependencies)
    /\ \A c \in 1..Len(calls) :
          (calls[c].sync = "rejected")
             <=> ~MapHas(registries[injectors[calls[c].inj].from].providers, calls[c].name)

\* a name was replaced on the Registry line after the Injector was made, and
\* a later build() of it on that Injector constructed the provider it held
C9_Witness ==
    \E c \in 1..Len(calls) : \E k \in Made :
        LET i == calls[c].inj IN
        /\ k > injectors[i].madeAfter
        /\ registries[k].op.receiver = injectors[i].from
        /\ registries[k].op.name = calls[c].name
        /\ registries[k].op.had
        /\ registries[k].op.old.factory # registries[k].op.input
        /\ calls[c].registriesAtStart >= k
        /\ Outcome(c) = "resolved"
        /\ \E n \in BuiltBy(c, calls[c].name) : nodes[n].factory = registries[k].op.old.factory

\* C11: build(name) of a constant provider resolves to exactly the value
\* that was registered, and invokes no factory.
C11_ConstantUnmodified ==
    \A c \in 1..Len(calls) :
        (IsRegistered(c) /\ Requested(c).type = "CONSTANT") =>
            /\ Outcome(c) \in {"pending", "resolved"}
            /\ Outcome(c) = "resolved" => ResolvedValue(c) = Requested(c).factory
            /\ \A n \in 1..Len(nodes) :
                  (nodes[n].call = c /\ nodes[n].invoked) => nodes[n].factory \notin Functions

\* the arguments of a registration call that its assert() is to refuse
InvalidInput(op, input) ==
    \/ op \in {"ctor", "fn"} /\ ~IsFunction(input)
    \/ op = "constant" /\ input = Null

\* C12: ctor and fn with a non-function, and constant with null or
\* undefined, throw at once; no Registry is made and the Registry values
\* that exist, the receiver among them, are left as they were.
C12_ValidationLeavesRegistry ==
    [][ /\ InvalidInput(lastOp'.op, lastOp'.input) =>
              (lastOp'.threw /\ registries' = registries)
        /\ \A k \in 2..Len(registries') :
              ~InvalidInput(registries'[k].op.op, registries'[k].op.input) ]_vars

\* a constant(name, null) call on a Registry that holds providers threw
C12_Witness ==
    /\ lastOp.threw
    /\ lastOp.op = "constant"
    /\ \E k \in Made : registries[k].providers # EmptyMap

RECURSIVE Subtree(_)
\* chain n and the chains of the dependencies below it
Subtree(n) == {n} \cup UNION {Subtree(nodes[n].children[k]) : k \in 1..Len(nodes[n].children)}

\* the values that the resolutions of name made for chain n came to
ResolvedFor(n, name) ==
    {nodes[m].value : m \in {x \in Subtree(n) \ {n} :
                                nodes[x].name = name /\ nodes[x].state = "fulfilled"}}

\* C13: a provider with dependencies [d1, ..., dn] is constructed with
\* exactly n arguments, and argument i is the value di resolved to, in
\* whatever order the resolutions were fulfilled.
C13_ArgumentsInDeclaredOrder ==
    \A n \in 1..Len(nodes) :
        nodes[n].invoked =>
            LET deps == ProviderOfNode(n).dependencies IN
            /\ Len(nodes[n].args) = Len(deps)
            /\ Len(nodes[n].children) = Len(deps)
            /\ \A k \in 1..Len(deps) :
                  /\ nodes[nodes[n].children[k]].name = deps[k]
                  /\ nodes[n].args[k] \in ResolvedFor(n, deps[k])

\* a provider was constructed with two different arguments after its second
\* dependency had been fulfilled ahead of its first
C13_Witness ==
    \E n \in 1..Len(nodes) :
        /\ nodes[n].invoked
        /\ Len(nodes[n].args) = 2
        /\ nodes[n].args[1] # nodes[n].args[2]
        /\ nodes[nodes[n].children[2]].early

\* the Registry values made by a registration with a using option
MadeUsing == {k \in Made : registries[k].op.options.hasUsing}

\* C14: with using {d: r} the stored dependency list has r where the raw
\* list has d and is otherwise the raw list; build resolves the provider
\* registered as r for that position and passes its value there, and does
\* not resolve the provider registered as d for it.
C14_UsingRenames ==
    \A k \in MadeUsing :
        LET op == registries[k].op
            raw == getDependencyNames(op.input)
            stored == registries[k].providers[op.name].dependencies
        IN
        /\ Len(stored) = Len(raw)
        /\ \A j \in 1..Len(raw) :
              stored[j] = IF raw[j] \in DOMAIN op.options.using
                          THEN op.options.using[raw[j]] ELSE raw[j]
        /\ \A n \in 1..Len(nodes) :
              (injectors[nodes[n].inj].from = k /\ nodes[n].name = op.name) =>
                 /\ Len(nodes[n].children) = Len(raw)
                 /\ \A j \in 1..Len(raw) :
                       raw[j] \in DOMAIN op.options.using =>
                          /\ nodes[nodes[n].children[j]].name = op.options.using[raw[j]]
                          /\ nodes[n].invoked =>
                                nodes[n].args[j] \in ResolvedFor(n, op.options.using[raw[j]])

\* a provider registered with using {d: r}, r # d, both registered, was
\* constructed
C14_Witness ==
    \E k \in MadeUsing : \E n \in BuiltFrom(k, registries[k].op.name) :
        LET op == registries[k].op
            raw == getDependencyNames(op.input)
        IN \E j \in 1..Len(raw) :
              /\ raw[j] \in DOMAIN op.options.using
              /\ op.options.using[raw[j]] # raw[j]
              /\ MapHas(registries[k].providers, raw[j])
              /\ MapHas(registries[k].providers, op.options.using[raw[j]])
              /\ nodes[n].args[j] # Undefined

\* the chains of call c whose own construction failed: the factory threw, or
\* the promise it returned was rejected
FailedIn(c) ==
    {n \in 1..Len(nodes) : nodes[n].call = c /\ nodes[n].invoked /\ nodes[n].state = "rejected"}

\* the chains that wait, directly or not, for chain n
Dependents(n) == {p \in 1..Len(nodes) : n \in Subtree(p) \ {p}}

\* C15: when the construction of a provider in the graph of build(name)
\* fails with e, build(name) rejects with e itself, not wrapped and with no
\* chain, however deep the provider lies, and no provider that depends on
\* the failing one is constructed.
C15_ConstructionFailureVerbatim ==
    \A c \in 1..Len(calls) :
        FailedIn(c) # {} =>
            /\ Outcome(c) \in {"pending", "rejected"}
            /\ Outcome(c) = "rejected" =>
                  \E n \in FailedIn(c) :
                      CallError(c) = MkError("FactoryError", nodes[n].name)
            /\ \A n \in FailedIn(c) : \A p \in Dependents(n) : ~nodes[p].invoked

\* C16: build() never throws synchronously, and never resolves with
\* undefined in place of an error: every failure is a rejection of the
\* promise it returns.
C16_FailuresAreRejections ==
    \A c \in 1..Len(calls) :
        /\ Outcome(c) # "threw"
        /\ Outcome(c) = "resolved" => ResolvedValue(c) # Undefined

\* C17: when a build() call needs a cacheable provider whose construction,
\* started by an earlier call on the same Injector, was still in flight
\* when it began, the provider is not constructed a second time.
C17_OverlappingBuildsJoin ==
    \A n1, n2 \in 1..Len(nodes) :
        ( /\ nodes[n1].inj = nodes[n2].inj
          /\ nodes[n1].name = nodes[n2].name
          /\ nodes[n1].call < nodes[n2].call
          /\ ProviderOfNode(n1).isCacheable
          /\ nodes[n1].state # "rejected" )
        => ~(nodes[n1].invoked /\ nodes[n2].invoked)

\* C18: a build() call that begins when a dependency d of the provider
\* asked for is in the cache does not throw, and neither resolves d anew nor
\* constructs it.
C18_CachedDependencyReused ==
    \A c \in 1..Len(calls) :
        LET providers == injectors[calls[c].inj].providers
            cached == (Reachable(providers, calls[c].name) \ {calls[c].name})
                         \cap DOMAIN calls[c].cacheAtStart
        IN (IsRegistered(c) /\ cached # {}) =>
              /\ Outcome(c) # "threw"
              /\ \A n \in 1..Len(nodes) : nodes[n].call = c => nodes[n].name \notin cached

\* C19: every name in the cache of an Injector is the name of a cacheable
\* provider, and the value cached is the value that a completed, successful
\* construction of it on that Injector produced.
C19_CacheHoldsBuiltCacheables ==
    \A i \in 1..Len(injectors) : \A name \in DOMAIN injectors[i].cache :
        /\ MapHas(injectors[i].providers, name)
        /\ injectors[i].providers[name].isCacheable
        /\ \E n \in 1..Len(nodes) :
              /\ nodes[n].inj = i
              /\ nodes[n].name = name
              /\ nodes[n].state = "fulfilled"
              /\ nodes[n].value = injectors[i].cache[name]

\* the construction of a cacheable provider failed and left the cache
\* without it; a later one succeeded and its value is cached
C19_Witness ==
    \E n1, n2 \in 1..Len(nodes) :
        /\ nodes[n1].inj = nodes[n2].inj
        /\ nodes[n1].name = nodes[n2].name
        /\ nodes[n1].invoked /\ nodes[n1].state = "rejected"
        /\ nodes[n2].state = "fulfilled"
        /\ MapGet(injectors[nodes[n2].inj].cache, nodes[n2].name) = nodes[n2].value

\* C20: a name that is in the cache stays in it with the same value, in
\* every step of every build() call.
C20_CacheMonotone ==
    [][ \A i \in 1..Len(injectors) : \A name \in DOMAIN injectors[i].cache :
           /\ name \in DOMAIN injectors'[i].cache
           /\ injectors'[i].cache[name] = injectors[i].cache[name] ]_vars

\* C21: a provider is constructed only after the resolution of every one of
\* its declared dependencies has been fulfilled; while one of them has failed
\* or is unsettled it is not constructed.
C21_FanIn ==
    \A n \in 1..Len(nodes) :
        nodes[n].invoked =>
            LET deps == ProviderOfNode(n).dependencies IN
            /\ Len(nodes[n].children) = Len(deps)
            /\ \A k \in 1..Len(deps) :
                  /\ nodes[nodes[n].children[k]].name = deps[k]
                  /\ nodes[nodes[n].children[k]].state = "fulfilled"

\* one provider was constructed once its two dependencies were fulfilled,
\* and another attempt at it was rejected, unconstructed, with one
\* dependency fulfilled and the other one failed
C21_Witness ==
    \E n1, n2 \in 1..Len(nodes) :
        /\ nodes[n1].invoked
        /\ Len(nodes[n1].children) = 2
        /\ ~nodes[n2].invoked
        /\ nodes[n2].state = "rejected"
        /\ \E j, k \in 1..Len(nodes[n2].children) :
              /\ nodes[nodes[n2].children[j]].state = "fulfilled"
              /\ nodes[nodes[n2].children[k]].state = "rejected"

\* C22: the resolutions of all dependencies of a provider are started
\* together: the construction of a dependency whose own dependencies are
\* fulfilled can start whatever the state of its siblings, pending ones
\* included.
C22_FanOut ==
    \A p \in 1..Len(nodes) :
        /\ Len(nodes[p].children) = Len(ProviderOfNode(p).dependencies)
        /\ \A k \in 1..Len(nodes[p].children) :
              LET m == nodes[p].children[k] IN
              (nodes[m].state = "waiting"
               /\ \A j \in 1..Len(nodes[m].children) :
                     nodes[nodes[m].children[j]].state = "fulfilled")
              => ENABLED Construct(m)

\* the construction of a dependency has started while a sibling declared
\* ahead of it is still unsettled
C22_Witness ==
    \E p \in 1..Len(nodes) : \E j, k \in 1..Len(nodes[p].children) :
        /\ j < k
        /\ nodes[nodes[p].children[k]].invoked
        /\ nodes[nodes[p].children[j]].state \in {"waiting", "pending"}

\* the names of the graph of name that lie on a cycle
CyclicIn(providers, name) == {x \in Reachable(providers, name) : OnCycle(providers, x)}

\* the graph that build(name) reaches is complete and acyclic
Sound(providers, name) ==
    /\ MapHas(providers, name)
    /\ MissingChains(providers, name, {}) = {}
    /\ CyclicIn(providers, name) = {}

\* the map has a provider with an unregistered dependency, or a cycle
Defective(providers) == \E name \in DOMAIN providers : ~Sound(providers, name)

ViaRegistry == {c \in 1..Len(calls) : calls[c].via = "registry"}

\* C24: every Registry#build(name) call runs on an Injector of its own,
\* made from the Registry with an empty cache; two such calls for a cacheable
\* provider construct it once each and resolve with different instances.
C24_RegistryBuildFreshInjector ==
    /\ \A c \in ViaRegistry :
          /\ calls[c].cacheAtStart = EmptyMap
          /\ \A c2 \in 1..Len(calls) : c2 # c => calls[c2].inj # calls[c].inj
    /\ \A c1, c2 \in ViaRegistry :
          ( /\ c1 < c2
            /\ calls[c1].name = calls[c2].name
            /\ injectors[calls[c1].inj].from = injectors[calls[c2].inj].from
            /\ IsRegistered(c1)
            /\ Requested(c1).isCacheable
            /\ Outcome(c1) = "resolved"
            /\ Outcome(c2) = "resolved" )
          => /\ Cardinality(BuiltBy(c1, calls[c1].name)) = 1
             /\ Cardinality(BuiltBy(c2, calls[c2].name)) = 1
             /\ ResolvedValue(c1) # ResolvedValue(c2)

\* two sequential Registry#build(name) calls for a cacheable provider have
\* both resolved
C24_Witness ==
    \E c1, c2 \in ViaRegistry :
        /\ c1 \in calls[c2].prior
        /\ calls[c1].name = calls[c2].name
        /\ IsRegistered(c2)
        /\ Requested(c2).isCacheable
        /\ Outcome(c2) = "resolved"

\* C25: when a build() is rejected, every cacheable provider that was
\* constructed successfully in that call is in the cache, and a later
\* build() on the Injector that needs it reuses the cached value: it does
\* not throw and does not resolve the provider anew.
C25_FailedBuildKeepsCache ==
    \A c1 \in 1..Len(calls) : \A n \in 1..Len(nodes) :
        ( /\ Outcome(c1) = "rejected"
          /\ nodes[n].call = c1
          /\ nodes[n].state = "fulfilled"
          /\ ProviderOfNode(n).isCacheable )
        => /\ MapHas(injectors[nodes[n].inj].cache, nodes[n].name)
           /\ \A c2 \in 1..Len(calls) :
                 ( /\ c2 > c1
                   /\ calls[c2].inj = calls[c1].inj
                   /\ MapHas(calls[c2].cacheAtStart, nodes[n].name)
                   /\ nodes[n].name \in Reachable(injectors[calls[c2].inj].providers,
                                                   calls[c2].name) )
                 => /\ Outcome(c2) # "threw"
                    /\ \A m \in 1..Len(nodes) :
                          nodes[m].call = c2 => nodes[m].name # nodes[n].name

\* C26: the argument a provider is constructed with for its dependency d is
\* the value of the resolution of d that the provider itself started.
C26_OwnResolution ==
    \A n \in 1..Len(nodes) :
        nodes[n].invoked =>
            \A k \in 1..Len(nodes[n].children) :
                nodes[n].args[k] = nodes[nodes[n].children[k]].value

\* every chain of call c is settled
Quiet(c) ==
    \A n \in 1..Len(nodes) : nodes[n].call = c => nodes[n].state \in {"fulfilled", "rejected"}

\* C27: build(name) on a complete, acyclic graph returns a promise (it does
\* not throw); once every chain of the call is settled the promise is
\* settled, and it is resolved exactly when no construction of the call
\* failed.
C27_SoundBuildSettles ==
    \A c \in 1..Len(calls) :
        Sound(injectors[calls[c].inj].providers, calls[c].name) =>
            /\ Outcome(c) # "threw"
            /\ Quiet(c) =>
                  /\ Outcome(c) \in {"resolved", "rejected"}
                  /\ (Outcome(c) = "resolved") <=> (FailedIn(c) = {})

====
